---- MODULE Spec2Model ----
(***************************************************************************)
(* Panel cut optimizer: validate_input (main.py), find_position and        *)
(* optimize_layout (optimizer.py).                                         *)
(*                                                                         *)
(* Numbers.  The program computes with floats; the model computes the same *)
(* expressions exactly.  Widths and heights (of the stock sheet, of panels *)
(* and of placed rects) are integers in the input unit.  Positions (x, y)  *)
(* are integers in units of 1/StepDen of the input unit, because the grid  *)
(* step of find_position is min(...) * 0.001: in position units the step   *)
(* is the integer min(...), and every position the program can produce is  *)
(* an integer.  Pos(d) converts a length to position units.                *)
(***************************************************************************)
EXTENDS Integers, Sequences, FiniteSets, TLC

\* Bounds of the model: number of panel specs in the input list, and the
\* total of their quantities.
MaxSpecs == 3
MaxInstances == 7

\* step = min(...) * 0.001
StepDen == 1000

Pos(d) == StepDen * d

Min2(a, b) == IF a <= b THEN a ELSE b
Max2(a, b) == IF a >= b THEN a ELSE b
CeilDiv(a, b) == (a + b - 1) \div b

\* The element of a singleton.  The({F(v) : v \in {e}}) is F(e) with e
\* evaluated once however often F uses v.  (Evaluating ENABLED, TLC
\* evaluates a LET definition or an operator argument anew at every use.)
The(S) == CHOOSE r \in S : TRUE

\* Lexicographic "<" on pairs, as Python compares tuples.
TupleLess(a, b) == a[1] < b[1] \/ (a[1] = b[1] /\ a[2] < b[2])

(***************************************************************************)
(* Data                                                                    *)
(***************************************************************************)
\* Panel(width, height, quantity).  spec and id are the identity of the
\* Python object: the index of the input spec the instance was copied from
\* and the instance's index in panels_copy before sorting (0 for an input
\* panel).  position None is <<>>.
Panel(width, height, quantity, spec, id) ==
    [width |-> width, height |-> height, quantity |-> quantity,
     position |-> <<>>, rotated |-> FALSE, spec |-> spec, id |-> id]

\* StockSheet(width, height); efficiency 0.0 is the fraction <<0, 1>>.
StockSheet(width, height) ==
    [width |-> width, height |-> height, used_space |-> <<>>,
     efficiency |-> <<0, 1>>]

(***************************************************************************)
(* validate_input                                                          *)
(***************************************************************************)
PanelTooLarge(sw, sh, panel) ==
    \/ (panel.width > sw /\ panel.height > sw)
    \/ (panel.height > sh /\ panel.width > sh)

\* TRUE when validate_input returns (True, ""), FALSE when it returns
\* (False, message).
validate_input(sw, sh, ps) ==
    \A i \in 1..Len(ps) : ~PanelTooLarge(sw, sh, ps[i])

(***************************************************************************)
(* find_position                                                           *)
(***************************************************************************)
\* Variant of the overlap test that forgets the used rect's width in
\* "x >= used['x'] + used['w']".
Overlaps_NoWidth(x, y, w, h, used) ==
    ~(\/ x + Pos(w) <= used.x
      \/ x >= used.x
      \/ y + Pos(h) <= used.y
      \/ y >= used.y + Pos(used.h))

\* The overlap test of a candidate w x h at (x, y) against one used rect.
Overlaps(x, y, w, h, used) ==
    ~(\/ x + Pos(w) <= used.x
      \/ x >= used.x + Pos(used.w)
      \/ y + Pos(h) <= used.y
      \/ y >= used.y + Pos(used.h))

\* valid: the loop over sheet.used_space found no overlapping rect.
Valid(sheet, x, y, w, h) ==
    \A i \in 1..Len(sheet.used_space) :
        ~Overlaps(x, y, w, h, sheet.used_space[i])

\* step = min(panel.width, panel.height, sheet.width, sheet.height) * 0.001,
\* in position units.
StepSize(sheet, panel) ==
    Pos(Min2(Min2(panel.width, panel.height),
             Min2(sheet.width, sheet.height))) \div StepDen

OrientationKey(sheet, o) ==
    << -(IF o.w <= sheet.width THEN o.w ELSE 0),
       -(IF o.h <= sheet.height THEN o.h ELSE 0) >>

\* The orientations list after its (stable) sort.
Orientations(sheet, panel) ==
    LET o1 == [w |-> panel.width, h |-> panel.height, rotated |-> FALSE]
        o2 == [w |-> panel.height, h |-> panel.width, rotated |-> TRUE]
    IN  IF panel.width = panel.height THEN <<o1>>
        ELSE IF TupleLess(OrientationKey(sheet, o2), OrientationKey(sheet, o1))
             THEN <<o2, o1>>
             ELSE <<o1, o2>>

\* "Skip if panel doesn't fit in this orientation" is the negation of this.
FitsSheet(sheet, w, h) == ~(w > sheet.width \/ h > sheet.height)

\* The four corners, then right side and top side of every used rect.
PriorityPositions(sheet, w, h) ==
    LET us == sheet.used_space
        corners == << <<0, 0>>,
                      <<Pos(sheet.width - w), 0>>,
                      <<0, Pos(sheet.height - h)>>,
                      <<Pos(sheet.width - w), Pos(sheet.height - h)>> >>
        nextTo == [i \in 1..(2 * Len(us)) |->
                     IF i % 2 = 1
                     THEN <<us[(i + 1) \div 2].x + Pos(us[(i + 1) \div 2].w),
                            us[(i + 1) \div 2].y>>
                     ELSE <<us[i \div 2].x,
                            us[i \div 2].y + Pos(us[i \div 2].h)>>]
    IN  corners \o nextTo

InBounds(sheet, w, h, p) ==
    /\ 0 <= p[1] /\ p[1] <= Pos(sheet.width - w)
    /\ 0 <= p[2] /\ p[2] <= Pos(sheet.height - h)

FilteredPriorityPositions(sheet, w, h) ==
    SelectSeq(PriorityPositions(sheet, w, h),
              LAMBDA p : InBounds(sheet, w, h, p))

\* The update of best_x, best_y, can_place, best_rotated by one valid
\* candidate.
Consider(best, x, y, rotated) ==
    IF ~best.can_place \/ (y < best.y \/ (y = best.y /\ x < best.x))
    THEN [can_place |-> TRUE, x |-> x, y |-> y, rotated |-> rotated]
    ELSE best

\* "Check priority positions first": the loop over the filtered list ps,
\* from its k-th position on.
RECURSIVE CheckPriorityFrom(_, _, _, _, _, _, _)
CheckPriorityFrom(best, sheet, ps, k, w, h, rotated) ==
    IF k > Len(ps) THEN best
    ELSE The({CheckPriorityFrom(b, sheet, ps, k + 1, w, h, rotated) :
                b \in {IF Valid(sheet, ps[k][1], ps[k][2], w, h)
                       THEN Consider(best, ps[k][1], ps[k][2], rotated)
                       ELSE best}})

CheckPriority(best, sheet, w, h, rotated) ==
    The({CheckPriorityFrom(best, sheet, ps, 1, w, h, rotated) :
            ps \in {FilteredPriorityPositions(sheet, w, h)}})

\* len(np.arange(0, stop, step)).
ArangeLen(stop, step) == IF stop <= 0 THEN 0 ELSE CeilDiv(stop, step)

\* The indices i of np.arange(0, stop, step) at which the grid scan can find
\* its lexicographic minimum: i = 0 and, for each used rect, the first grid
\* line at or past the rect's far edge.  (A valid grid point whose left
\* neighbour is blocked by a rect lies in the first grid line at or past
\* that rect's right edge; the same holds downwards.  The scan keeps the
\* valid point with the least (y, x), so leaving out the other grid lines
\* does not change what it returns.)
GridLines(edges, stop, step) ==
    {i \in {0} \cup {CeilDiv(e, step) : e \in edges} :
        i < ArangeLen(stop, step)}

RightEdges(sheet) ==
    {sheet.used_space[i].x + Pos(sheet.used_space[i].w) :
        i \in 1..Len(sheet.used_space)}

TopEdges(sheet) ==
    {sheet.used_space[i].y + Pos(sheet.used_space[i].h) :
        i \in 1..Len(sheet.used_space)}

\* The valid points (x, y) of the fallback grid, x in
\* np.arange(0, sheet.width - w + step, step) and y in
\* np.arange(0, sheet.height - h + step, step).
GridCandidates(sheet, w, h, step) ==
    {p \in {<<i * step, j * step>> :
              i \in GridLines(RightEdges(sheet),
                              Pos(sheet.width - w) + step, step),
              j \in GridLines(TopEdges(sheet),
                              Pos(sheet.height - h) + step, step)} :
        Valid(sheet, p[1], p[2], w, h)}

\* The least (y, then x) of a non-empty set of positions.
LeastYX(S) ==
    CHOOSE p \in S : \A q \in S : p = q \/ TupleLess(<<p[2], p[1]>>, <<q[2], q[1]>>)

\* The fallback double loop, entered with can_place false: it keeps the
\* valid grid point with the least (y, x).
GridScan(best, sheet, w, h, rotated, step) ==
    The({IF G = {} THEN best
         ELSE The({Consider(best, p[1], p[2], rotated) : p \in {LeastYX(G)}}) :
            G \in {GridCandidates(sheet, w, h, step)}})

\* One pass of "for w, h, rotated in orientations".
SearchOrientation(best, sheet, o, step) ==
    IF ~FitsSheet(sheet, o.w, o.h) THEN best
    ELSE The({IF ~b.can_place
              THEN GridScan(b, sheet, o.w, o.h, o.rotated, step)
              ELSE b :
                b \in {CheckPriority(best, sheet, o.w, o.h, o.rotated)}})

\* best_x = best_y = inf is written -1; it is never read while can_place is
\* false.
NoPosition == [can_place |-> FALSE, x |-> -1, y |-> -1, rotated |-> FALSE]

\* The loop over the orientations os, from the k-th on.
RECURSIVE SearchFrom(_, _, _, _, _)
SearchFrom(best, sheet, os, k, step) ==
    IF k > Len(os) THEN best
    ELSE The({SearchFrom(b, sheet, os, k + 1, step) :
                b \in {SearchOrientation(best, sheet, os[k], step)}})

find_position(sheet, panel) ==
    The({SearchFrom(NoPosition, sheet, os, 1, StepSize(sheet, panel)) :
            os \in {Orientations(sheet, panel)}})

(***************************************************************************)
(* optimize_layout                                                         *)
(***************************************************************************)
\* panels_copy: quantity copies of every input panel, each of quantity 1.
RECURSIVE ExpandFrom(_, _, _)
ExpandFrom(ps, i, firstId) ==
    IF i > Len(ps) THEN <<>>
    ELSE [k \in 1..ps[i].quantity |->
            Panel(ps[i].width, ps[i].height, 1, i, firstId + k - 1)]
         \o ExpandFrom(ps, i + 1, firstId + ps[i].quantity)

\* Variant of the expansion without the loop over range(panel.quantity).
ExpandPanels_IgnoreQuantity(ps) ==
    [i \in 1..Len(ps) |-> Panel(ps[i].width, ps[i].height, 1, i, i)]

ExpandPanels(ps) == ExpandFrom(ps, 1, 1)

\* Variant of the sort key without the minus signs (ascending sort).
SortKey_Ascending(p) ==
    << Max2(p.width, p.height), p.width * p.height, Min2(p.width, p.height) >>

SortKey(p) ==
    << -Max2(p.width, p.height), -(p.width * p.height),
       -Min2(p.width, p.height) >>

KeyLess(a, b) ==
    \/ a[1] < b[1]
    \/ (a[1] = b[1] /\ a[2] < b[2])
    \/ (a[1] = b[1] /\ a[2] = b[2] /\ a[3] < b[3])

\* Variant of the sort that puts an element before the elements of equal
\* key (an unstable sort).
RECURSIVE InsertSorted_Unstable(_, _)
InsertSorted_Unstable(sorted, p) ==
    IF sorted = <<>> THEN <<p>>
    ELSE IF ~KeyLess(SortKey(Head(sorted)), SortKey(p))
         THEN <<p>> \o sorted
         ELSE <<Head(sorted)>> \o InsertSorted_Unstable(Tail(sorted), p)

\* list.sort is stable: an element goes after the elements already placed
\* whose key is not greater than its own.
RECURSIVE InsertSorted(_, _)
InsertSorted(sorted, p) ==
    IF sorted = <<>> THEN <<p>>
    ELSE IF KeyLess(SortKey(p), SortKey(Head(sorted)))
         THEN <<p>> \o sorted
         ELSE <<Head(sorted)>> \o InsertSorted(Tail(sorted), p)

RECURSIVE SortPanels(_)
SortPanels(ps) ==
    IF ps = <<>> THEN <<>>
    ELSE InsertSorted(SortPanels(SubSeq(ps, 1, Len(ps) - 1)), ps[Len(ps)])

\* "for sheet in sheets: can_place, x, y, rotated = find_position(sheet,
\* panel); if can_place: ... break": the index of the sheet the loop stops
\* at with the position found there; sheet 0 when it runs to its end.
RECURSIVE TrySheetsFrom(_, _, _)
TrySheetsFrom(ss, panel, i) ==
    IF i > Len(ss) THEN [sheet |-> 0, pos |-> NoPosition]
    ELSE The({IF pos.can_place THEN [sheet |-> i, pos |-> pos]
              ELSE TrySheetsFrom(ss, panel, i + 1) :
                pos \in {find_position(ss[i], panel)}})

\* Variant of the loop over the sheets without its break: the last sheet
\* that has a position wins.
TrySheets_LastFit(ss, panel) ==
    LET fits == {i \in 1..Len(ss) : find_position(ss[i], panel).can_place}
        last == CHOOSE i \in fits : \A j \in fits : j <= i
    IN  IF fits = {} THEN [sheet |-> 0, pos |-> NoPosition]
        ELSE [sheet |-> last, pos |-> find_position(ss[last], panel)]

TrySheets(ss, panel) == TrySheetsFrom(ss, panel, 1)

\* Variant of the placement without "panel.quantity -= 1".
PlacedPanel_NoDecrement(panel, pos) ==
    [panel EXCEPT !.position = <<pos.x, pos.y>>, !.rotated = pos.rotated]

\* The panel after panel.position, panel.rotated and panel.quantity -= 1.
PlacedPanel(panel, pos) ==
    [panel EXCEPT !.position = <<pos.x, pos.y>>, !.rotated = pos.rotated,
                  !.quantity = panel.quantity - 1]

\* The dict appended to used_space.
UsedRect(panel, pos) ==
    [x |-> pos.x, y |-> pos.y,
     w |-> IF pos.rotated THEN panel.height ELSE panel.width,
     h |-> IF pos.rotated THEN panel.width ELSE panel.height,
     panel |-> PlacedPanel(panel, pos)]

\* "if panel.quantity == 0: remaining_panels.pop(0)", the head being the
\* panel just placed.
AfterPlacement(remaining, placedPanel) ==
    IF placedPanel.quantity = 0 THEN Tail(remaining)
    ELSE <<placedPanel>> \o Tail(remaining)

RECURSIVE UsedArea(_)
UsedArea(us) ==
    IF us = <<>> THEN 0 ELSE Head(us).w * Head(us).h + UsedArea(Tail(us))

\* (used_area / (width * height)) * 100 as the fraction <<num, den>>.
WithEfficiency(sheet) ==
    [sheet EXCEPT !.efficiency =
        <<100 * UsedArea(sheet.used_space), sheet.width * sheet.height>>]

(***************************************************************************)
(* The inputs                                                              *)
(***************************************************************************)
\* Stock sheets, each with the panel sizes (width, height) offered on it.
Scenarios ==
    { [width |-> 7, height |-> 7,
       sizes |-> {<<4, 1>>, <<2, 3>>, <<6, 1>>}],
      [width |-> 4001, height |-> 2000,
       sizes |-> {<<2002, 2000>>, <<2000, 2000>>}],
      [width |-> 4, height |-> 2,
       sizes |-> {<<4, 1>>, <<3, 3>>, <<5, 1>>}] }

\* The panel lists of at most maxLen specs over sizes, quantities >= 1 with
\* a total of at most maxTotal.
RECURSIVE PanelLists(_, _, _)
PanelLists(sizes, maxLen, maxTotal) ==
    IF maxLen = 0 \/ maxTotal = 0 THEN {<<>>}
    ELSE {<<>>} \cup
         UNION { { <<Panel(s[1], s[2], q, 0, 0)>> \o rest :
                     rest \in PanelLists(sizes, maxLen - 1, maxTotal - q) } :
                 s \in sizes, q \in 1..maxTotal }

(***************************************************************************)
(* The program                                                             *)
(***************************************************************************)
VARIABLES
    stock_width, stock_height,  \* the stock sheet
    panels,                     \* the input panel list
    pc,                         \* where the run is
    sheets,                     \* optimize_layout's sheets
    remaining_panels,           \* optimize_layout's queue
    result,                     \* what optimize_layout ended with
    placements                  \* history: the rects in the order appended

vars == <<stock_width, stock_height, panels, pc, sheets, remaining_panels,
          result, placements>>

\* The form as Streamlit first shows it: the default stock sheet and
\* st.session_state.panels.
Init ==
    /\ stock_width = 1650
    /\ stock_height = 2140
    /\ panels = <<Panel(1524, 1524, 1, 0, 0)>>
    /\ pc = "form"
    /\ sheets = <<>>
    /\ remaining_panels = <<>>
    /\ result = [kind |-> "none"]
    /\ placements = <<>>

\* The number inputs: the user sets the stock sheet and the panel list.
EditForm ==
    /\ pc = "form"
    /\ \E sc \in Scenarios :
         /\ stock_width' = sc.width
         /\ stock_height' = sc.height
         /\ panels' \in PanelLists(sc.sizes, MaxSpecs, MaxInstances) \ {<<>>}
    /\ pc' = "ready"
    /\ UNCHANGED <<sheets, remaining_panels, result, placements>>

\* The Optimize Layout handler up to the verdict of validate_input:
\* st.error(error_message) when it says no.
OptimizeClicked ==
    /\ pc \in {"form", "ready"}
    /\ pc' = IF validate_input(stock_width, stock_height, panels)
             THEN "accepted" ELSE "rejected"
    /\ UNCHANGED <<stock_width, stock_height, panels, sheets,
                   remaining_panels, result, placements>>

\* optimize_layout up to its while loop.
Start ==
    /\ remaining_panels' = SortPanels(ExpandPanels(panels))
    /\ sheets' = <<StockSheet(stock_width, stock_height)>>
    /\ pc' = "loop"
    /\ UNCHANGED <<stock_width, stock_height, panels, result, placements>>

\* The handler calls optimize_layout on the input validate_input accepted.
HandlerCall ==
    /\ pc = "accepted"
    /\ Start

\* optimize_layout called on the input as it is, by a caller other than
\* the handler.
DirectCall ==
    /\ pc \in {"form", "ready"}
    /\ Start

Logged(i, rect) ==
    [sheet |-> i, x |-> rect.x, y |-> rect.y, w |-> rect.w, h |-> rect.h,
     rotated |-> rect.panel.rotated, panel |-> rect.panel]

\* One iteration that places the head panel on an existing sheet.
PlaceOnSheet ==
    /\ pc = "loop"
    /\ remaining_panels # <<>>
    /\ \E try \in {TrySheets(sheets, Head(remaining_panels))} :
         /\ try.sheet # 0
         /\ \E rect \in {UsedRect(Head(remaining_panels), try.pos)} :
              /\ sheets' = [sheets EXCEPT ![try.sheet].used_space =
                                               Append(@, rect)]
              /\ remaining_panels' =
                     AfterPlacement(remaining_panels, rect.panel)
              /\ placements' = Append(placements, Logged(try.sheet, rect))
    /\ UNCHANGED <<stock_width, stock_height, panels, pc, result>>

\* One iteration that places the head panel on a new sheet.
PlaceOnNewSheet ==
    /\ pc = "loop"
    /\ remaining_panels # <<>>
    /\ \E new_sheet \in {StockSheet(stock_width, stock_height)} :
       \E pos \in {find_position(new_sheet, Head(remaining_panels))} :
         /\ pos.can_place
         /\ TrySheets(sheets, Head(remaining_panels)).sheet = 0
         /\ \E rect \in {UsedRect(Head(remaining_panels), pos)} :
              /\ sheets' = Append(sheets,
                     [new_sheet EXCEPT !.used_space = Append(@, rect)])
              /\ remaining_panels' =
                     AfterPlacement(remaining_panels, rect.panel)
              /\ placements' =
                     Append(placements, Logged(Len(sheets) + 1, rect))
    /\ UNCHANGED <<stock_width, stock_height, panels, pc, result>>

\* Variant of the failing iteration that drops the head panel and goes on
\* instead of raising.
RaiseValueError_Skip ==
    /\ pc = "loop"
    /\ remaining_panels # <<>>
    /\ ~find_position(StockSheet(stock_width, stock_height),
                      Head(remaining_panels)).can_place
    /\ TrySheets(sheets, Head(remaining_panels)).sheet = 0
    /\ remaining_panels' = Tail(remaining_panels)
    /\ UNCHANGED <<stock_width, stock_height, panels, pc, sheets, result,
                   placements>>

\* One iteration that raises ValueError: the sheets are dropped with the
\* frame; the model keeps them to show what the run had done.
RaiseValueError ==
    /\ pc = "loop"
    /\ remaining_panels # <<>>
    /\ LET panel == Head(remaining_panels)
       IN  /\ ~find_position(StockSheet(stock_width, stock_height),
                             panel).can_place
           /\ TrySheets(sheets, panel).sheet = 0
    /\ pc' = "raised"
    /\ result' = [kind |-> "ValueError"]
    /\ UNCHANGED <<stock_width, stock_height, panels, sheets,
                   remaining_panels, placements>>

\* The loop has ended: efficiencies, return sheets.
Return ==
    /\ pc = "loop"
    /\ remaining_panels = <<>>
    /\ sheets' = [i \in 1..Len(sheets) |-> WithEfficiency(sheets[i])]
    /\ result' = [kind |-> "sheets", sheets |-> sheets']
    /\ pc' = "returned"
    /\ UNCHANGED <<stock_width, stock_height, panels, remaining_panels,
                   placements>>

Next ==
    \/ EditForm
    \/ OptimizeClicked
    \/ HandlerCall
    \/ DirectCall
    \/ PlaceOnSheet
    \/ PlaceOnNewSheet
    \/ RaiseValueError
    \/ Return

Spec == Init /\ [][Next]_vars

\* optimize_layout is sequential code: once in its loop, the next
\* iteration (or the return) is taken.
LoopStep == PlaceOnSheet \/ PlaceOnNewSheet \/ RaiseValueError \/ Return

FairSpec == Spec /\ WF_vars(LoopStep)

(***************************************************************************)
(* Properties                                                              *)
(***************************************************************************)
Range(f) == {f[i] : i \in DOMAIN f}

RECURSIVE SumQuantities(_)
SumQuantities(ps) ==
    IF ps = <<>> THEN 0 ELSE Head(ps).quantity + SumQuantities(Tail(ps))

\* A panel of the input fits the stock sheet in one of its orientations.
FitsEither(p) ==
    \/ (p.width <= stock_width /\ p.height <= stock_height)
    \/ (p.height <= stock_width /\ p.width <= stock_height)

SomeSpecUnplaceable == \E i \in 1..Len(panels) : ~FitsEither(panels[i])

\* Rect k of sheet s was found by the fallback grid scan: its position is
\* none of the priority positions the search had for it.
FoundByGridScan(s, k) ==
    LET r == sheets[s].used_space[k]
        before == [sheets[s] EXCEPT !.used_space = SubSeq(@, 1, k - 1)]
    IN  <<r.x, r.y>> \notin Range(FilteredPriorityPositions(before, r.w, r.h))

Contained(sheet, r) ==
    /\ 0 <= r.x
    /\ 0 <= r.y
    /\ r.x + Pos(r.w) <= Pos(sheet.width)
    /\ r.y + Pos(r.h) <= Pos(sheet.height)

Disjoint(a, b) ==
    \/ a.x + Pos(a.w) <= b.x
    \/ b.x + Pos(b.w) <= a.x
    \/ a.y + Pos(a.h) <= b.y
    \/ b.y + Pos(b.h) <= a.y

\* C1, non-overlap: in every state, any two distinct rects of one sheet's
\* used_space have disjoint interiors (one lies left of, right of, below or
\* above the other; touching edges do not overlap).
C1_NonOverlap ==
    \A s \in 1..Len(sheets) :
        \A i, j \in 1..Len(sheets[s].used_space) :
            i < j => Disjoint(sheets[s].used_space[i], sheets[s].used_space[j])

\* A sheet holds a rect, inside the sheet, that the fallback grid scan
\* placed beside earlier rects.
C1_Witness ==
    \E s \in 1..Len(sheets) :
        \E k \in 2..Len(sheets[s].used_space) :
            /\ FoundByGridScan(s, k)
            /\ Contained(sheets[s], sheets[s].used_space[k])

\* C2, containment: every rect appended to a sheet lies inside the sheet,
\* 0 <= x, 0 <= y, x + w <= sheet.width, y + h <= sheet.height.
C2_Containment ==
    \A s \in 1..Len(sheets) :
        \A k \in 1..Len(sheets[s].used_space) :
            Contained(sheets[s], sheets[s].used_space[k])

\* C3, conservation: when optimize_layout returns, the returned sheets hold
\* as many rects as the input quantities sum to, and every expanded
\* instance is the panel of exactly one rect.
C3_Conservation ==
    pc = "returned" =>
        LET ss == result.sheets
            slots == {<<s, k>> \in (1..Len(ss)) \X (1..SumQuantities(panels)) :
                         k <= Len(ss[s].used_space)}
        IN  /\ Cardinality(slots) = SumQuantities(panels)
            /\ \A id \in 1..SumQuantities(panels) :
                   Cardinality({sl \in slots :
                       ss[sl[1]].used_space[sl[2]].panel.id = id}) = 1

\* A run over at least two specs returned at least two sheets.
C3_Witness ==
    /\ pc = "returned"
    /\ Len(result.sheets) >= 2
    /\ Len(panels) >= 2
    /\ SumQuantities(panels) > Len(panels)

\* C4, rejection: optimize_layout ends with ValueError exactly when some
\* input spec fits the stock sheet in neither orientation; it then returns
\* no sheet list, and otherwise it returns one.
C4_Rejection ==
    /\ pc = "raised" => SomeSpecUnplaceable /\ result.kind = "ValueError"
    /\ pc = "returned" => ~SomeSpecUnplaceable /\ result.kind = "sheets"

C4_Witness ==
    /\ pc = "raised"
    /\ \E i \in 1..Len(panels) : FitsEither(panels[i])

\* C5, first fit: a rect appended to the sheet at index i is the head
\* panel's, and find_position found no position for the head panel on any
\* sheet before i; a sheet is appended only when find_position failed on
\* every existing sheet, and it holds the head panel as its only rect.
C5_FirstFit ==
    [][pc = "loop" /\ pc' = "loop" =>
        LET panel == Head(remaining_panels)
            grown == {i \in 1..Len(sheets) : sheets'[i] # sheets[i]}
        IN  /\ Len(sheets') \in {Len(sheets), Len(sheets) + 1}
            /\ \A i \in grown :
                   /\ Len(sheets'[i].used_space) = Len(sheets[i].used_space) + 1
                   /\ sheets'[i].used_space[Len(sheets'[i].used_space)].panel.id
                        = panel.id
                   /\ find_position(sheets[i], panel).can_place
                   /\ \A j \in 1..(i - 1) :
                          ~find_position(sheets[j], panel).can_place
            /\ Len(sheets') = Len(sheets) => Cardinality(grown) = 1
            /\ Len(sheets') = Len(sheets) + 1 =>
                   /\ grown = {}
                   /\ \A j \in 1..Len(sheets) :
                          ~find_position(sheets[j], panel).can_place
                   /\ Len(sheets'[Len(sheets')].used_space) = 1
                   /\ sheets'[Len(sheets')].used_space[1].panel.id = panel.id
    ]_vars

\* After a second sheet was opened and used, a panel went to the first
\* sheet again, and a panel went to the second sheet when it was not new.
C5_Witness ==
    /\ \E k, l \in 1..Len(placements) :
           k < l /\ placements[k].sheet = 2 /\ placements[l].sheet = 1
    /\ Len(sheets) >= 2
    /\ Len(sheets[2].used_space) >= 2

\* The order of the claim: descending by max(width, height), then
\* width * height, then min(width, height); ties in the order of the specs.
Precedes(p, q) ==
    LET maxp == Max2(p.width, p.height)
        maxq == Max2(q.width, q.height)
        minp == Min2(p.width, p.height)
        minq == Min2(q.width, q.height)
        areap == p.width * p.height
        areaq == q.width * q.height
    IN  \/ maxp > maxq
        \/ maxp = maxq /\ areap > areaq
        \/ maxp = maxq /\ areap = areaq /\ minp > minq
        \/ maxp = maxq /\ areap = areaq /\ minp = minq /\ p.spec <= q.spec

\* The instances in the order placed, then those still queued.
PlacementOrder ==
    [k \in 1..Len(placements) |-> placements[k].panel] \o remaining_panels

\* The outcomes an iteration of the loop can take in the current state.
LoopOutcomes ==
    {a \in {"existing", "new", "raise", "return"} :
        \/ a = "existing" /\ ENABLED PlaceOnSheet
        \/ a = "new" /\ ENABLED PlaceOnNewSheet
        \/ a = "raise" /\ ENABLED RaiseValueError
        \/ a = "return" /\ ENABLED Return}

\* C6, placement order: the instances are placed one at a time in the
\* order of the sort, the instances of every spec being as many as its
\* quantity and of its size; and the run is a function of its input: in
\* every state of the loop exactly one outcome is possible (each outcome
\* being a function of the state), so two runs on one input place the same
\* rects in the same order.
C6_PlacementOrder ==
    pc \in {"loop", "raised", "returned"} =>
        /\ pc = "loop" => Cardinality(LoopOutcomes) = 1
        /\ Len(PlacementOrder) = SumQuantities(panels)
        /\ \A i \in 1..Len(panels) :
               Cardinality({k \in 1..Len(PlacementOrder) :
                   /\ PlacementOrder[k].spec = i
                   /\ PlacementOrder[k].width = panels[i].width
                   /\ PlacementOrder[k].height = panels[i].height})
                 = panels[i].quantity
        /\ \A k, l \in 1..Len(PlacementOrder) :
               k < l => Precedes(PlacementOrder[k], PlacementOrder[l])

\* A finished run in which the sort moved a later spec before an earlier
\* one and kept two specs of equal keys in input order.
C6_Witness ==
    /\ pc = "returned"
    /\ \E k, l \in 1..Len(placements) :
           k < l /\ placements[k].panel.spec > placements[l].panel.spec
    /\ \E k, l \in 1..Len(placements) :
           /\ k < l
           /\ placements[k].panel.spec < placements[l].panel.spec
           /\ Precedes(placements[l].panel, [placements[k].panel EXCEPT !.spec = Len(panels) + 1])

\* C7, validation: the handler's validate_input rejects the panel list
\* exactly when some panel fits the stock sheet in neither orientation.
C7_Validation ==
    [][pc' \in {"accepted", "rejected"} /\ pc' # pc =>
          (pc' = "rejected" <=> SomeSpecUnplaceable)]_vars

\* C8, rejection precedes allocation: in a run whose input has a spec that
\* fits in neither orientation, no rect is ever appended to a sheet.
C8_RejectionBeforeAllocation ==
    SomeSpecUnplaceable => placements = <<>>

\* C8 as amended: in a run whose input has such a spec, only panels that
\* fit are placed, the error is raised when a panel that does not fit is the
\* head of the queue, and no rect is appended at all when the input passes
\* validate_input.
C8_RejectionAtHead ==
    SomeSpecUnplaceable =>
        /\ \A k \in 1..Len(placements) : FitsEither(placements[k].panel)
        /\ pc = "raised" => ~FitsEither(Head(remaining_panels))
        /\ validate_input(stock_width, stock_height, panels) =>
               placements = <<>>
        /\ pc # "returned"

\* The error was raised after rects had been appended.
C8_Witness ==
    /\ pc = "raised"
    /\ placements # <<>>

\* What C9 says find_position returns: per fitting orientation, the valid
\* priority positions or, when there is none, the valid grid positions; of
\* all of them the least (y, then x), with the rotated flag of an
\* orientation that has it.
OrientationCandidates(sheet, o, step) ==
    LET P == {p \in Range(FilteredPriorityPositions(sheet, o.w, o.h)) :
                  Valid(sheet, p[1], p[2], o.w, o.h)}
    IN  IF P # {} THEN P ELSE GridCandidates(sheet, o.w, o.h, step)

BestOfBothOrientations(sheet, panel, pos) ==
    LET fitting == {o \in Range(Orientations(sheet, panel)) :
                        FitsSheet(sheet, o.w, o.h)}
        all == UNION {OrientationCandidates(sheet, o, StepSize(sheet, panel)) :
                          o \in fitting}
    IN  IF all = {} THEN ~pos.can_place
        ELSE /\ pos.can_place
             /\ <<pos.x, pos.y>> = LeastYX(all)
             /\ \E o \in fitting :
                    /\ o.rotated = pos.rotated
                    /\ LeastYX(all) \in
                         OrientationCandidates(sheet, o, StepSize(sheet, panel))

\* C9, best candidate across orientations: on every sheet of the run,
\* find_position returns for the head panel the best candidate of the two
\* orientations' two-phase searches.
C9_BestAcrossOrientations ==
    (pc = "loop" /\ remaining_panels # <<>>) =>
        \A s \in 1..Len(sheets) :
            BestOfBothOrientations(sheets[s], Head(remaining_panels),
                find_position(sheets[s], Head(remaining_panels)))

Terminated == pc \in {"returned", "raised", "rejected"}

\* C10, termination and progress: the loop ends; every iteration either
\* places the head panel and removes it from the queue, or raises the
\* error, or (the queue being empty) returns; a run that returns has
\* emptied the queue.
C10_Termination ==
    /\ (pc = "loop") ~> Terminated
    /\ [][pc = "loop" =>
            \/ /\ pc' = "loop"
               /\ remaining_panels # <<>>
               /\ remaining_panels' = Tail(remaining_panels)
               /\ Len(placements') = Len(placements) + 1
               /\ placements'[Len(placements')].panel.id
                    = Head(remaining_panels).id
            \/ /\ pc' = "raised"
               /\ remaining_panels # <<>>
               /\ UNCHANGED <<sheets, remaining_panels, placements>>
            \/ /\ pc' = "returned"
               /\ remaining_panels = <<>>
               /\ UNCHANGED <<remaining_panels, placements>>
       ]_vars

\* A run of at least five placements has returned.
C10_Witness ==
    /\ pc = "returned"
    /\ Len(placements) >= 5

====
